---- MODULE Spec2Model ----
(***************************************************************************)
(* O'Plaisir API (src/main.py, src/schemas.py): the request handlers of    *)
(* the storefront backend over a document store that is either connected   *)
(* (db is not None) or absent (db is None) for the life of the process.    *)
(*                                                                         *)
(* Write handlers (subscribe_newsletter, seed) make several store calls;   *)
(* each store call is one step, so handlers of concurrent requests         *)
(* interleave between store calls.  Read handlers (get_bestsellers,        *)
(* get_testimonials) make at most one store call and are one step each.    *)
(* Every store call may raise (a StoreError).                              *)
(*                                                                         *)
(* Spec    : requests are served concurrently (any interleaving).          *)
(* SeqSpec : a request starts only when no other request is in flight.     *)
(***************************************************************************)
EXTENDS Integers, Sequences, FiniteSets, TLC

VARIABLES
    dbAvailable,  \* database.db is not None (fixed at import time)
    coll,         \* the store: collection name -> sequence of documents, insertion order
    proc,         \* the write handlers in flight: worker -> position and locals
    resp,         \* the response on its way to the client (kind "none": there is none)
    history,      \* the responses of the write endpoints, in the order they were sent
    initial       \* how many documents each collection held when the process started

vars == <<dbAvailable, coll, proc, resp, history, initial>>

(***************************** bounds **************************************)
\* concurrent workers serving write requests
MaxProc == 2
\* write requests (subscribe, seed) served in one behaviour
MaxReq == 2
\* products the store may hold when the process starts
MaxPreProducts == 51
\* testimonials the store may hold when the process starts
MaxPreTestimonials == 13

Procs == 1..MaxProc
Emails == {"a@oplaisir.fr", "b@oplaisir.fr"}

(***************************** values **************************************)
\* Python's None as the value of a str-typed field
None == "None"
\* Optional[int]: <<>> is None, <<n>> is the integer n
NoLimit == <<>>

Min(a, b) == IF a < b THEN a ELSE b

\* s[:n] for n >= 0
PySlice(s, n) == SubSeq(s, 1, Min(n, Len(s)))

\* bool(s) of an Optional[str]
Truthy(s) == s # None /\ s # ""

\* d.get(k, default)
Get(d, k, default) == IF k \in DOMAIN d THEN d[k] ELSE default

\* d.setdefault(k, v), as the dictionary it leaves
setdefault(d, k, v) == IF k \in DOMAIN d THEN d ELSE d @@ (k :> v)

(***************************** fixed data **********************************)
IMG_CHOCOLAT == "photo-1542838132-92c53300491e"
IMG_MEDITERRANEEN == "photo-1504754524776-8f4f37790ca0"
IMG_DECOUVERTE == "photo-1519681393784-d120267933ba"
PLACEHOLDER_IMAGE == "photo-1542838686-73ca0c37d0e3"

\* get_bestsellers: the sample returned when db is None (prices in EUR)
sample ==
    << [_id |-> "demo1", title |-> "Panier Chocolat Signature", price |-> 89,
        image |-> IMG_CHOCOLAT, tag |-> "bestseller"],
       [_id |-> "demo2", title |-> "Coffret Méditerranéen Prestige", price |-> 119,
        image |-> IMG_MEDITERRANEEN, tag |-> "bestseller"],
       [_id |-> "demo3", title |-> "Assortiment Découverte", price |-> 59,
        image |-> IMG_DECOUVERTE, tag |-> "bestseller"] >>

\* get_testimonials: the list returned when db is None
sample_testimonials ==
    << [name |-> "Sofia", message |-> "Des créations sublimes et un service impeccable.", rating |-> 5],
       [name |-> "Karim", message |-> "Le panier Ramadan a fait sensation dans ma famille.", rating |-> 5],
       [name |-> "Lina", message |-> "Personnalisation parfaite pour notre mariage.", rating |-> 4] >>

\* seed: the products inserted when the product collection is empty
items ==
    << [title |-> "Panier Chocolat Premium", description |-> "Truffes et pralinés artisanaux",
        price |-> 89, category |-> "paniers", tag |-> "bestseller", image |-> IMG_CHOCOLAT],
       [title |-> "Coffret Méditerranéen", description |-> "Huile d'olive, nougat, miel",
        price |-> 119, category |-> "paniers", tag |-> "bestseller", image |-> IMG_MEDITERRANEEN],
       [title |-> "Panier Découverte", description |-> "Sélection du chef",
        price |-> 59, category |-> "paniers", tag |-> "nouveau", image |-> IMG_DECOUVERTE] >>

\* seed: the testimonials inserted when the testimonial collection is empty
seed_testimonials ==
    << [name |-> "Sofia", message |-> "Des créations sublimes et un service impeccable.", rating |-> 5],
       [name |-> "Karim", message |-> "Le panier Ramadan a fait sensation dans ma famille.", rating |-> 5] >>

(***************************************************************************)
(* Documents the store may already hold when the process starts.  Product  *)
(* (src/schemas.py) makes description, tag and image optional, so a stored *)
(* product may lack them, or hold them as null (a dumped Product model).   *)
(***************************************************************************)
Product(i) ==
    CASE i % 4 = 1 -> [_id |-> i, title |-> "Panier Ramadan", price |-> 75,
                       category |-> "paniers", tag |-> "bestseller"]
      [] i % 4 = 2 -> [_id |-> i, title |-> "Miel de thym", price |-> 12,
                       category |-> "epicerie", image |-> "photo-miel"]
      [] i % 4 = 3 -> [_id |-> i, title |-> "Coffret Naissance", description |-> None,
                       price |-> 49, category |-> "paniers", tag |-> "nouveau",
                       image |-> None, in_stock |-> TRUE]
      [] OTHER     -> [_id |-> i, title |-> "Panier Mariage", price |-> 150,
                       category |-> "paniers", tag |-> "bestseller",
                       image |-> "photo-mariage", in_stock |-> TRUE]

Testimonial(i) ==
    CASE i % 3 = 1 -> [_id |-> i, name |-> "Nadia", message |-> "Parfait.", rating |-> 4]
      [] i % 3 = 2 -> [_id |-> i, name |-> "Yanis", message |-> "Très bon accueil."]
      [] OTHER     -> [_id |-> i, message |-> "Livraison rapide.", rating |-> 3,
                       avatar |-> "photo-avatar"]

Store(np, nt) ==
    [product |-> [i \in 1..np |-> Product(i)],
     testimonial |-> [i \in 1..nt |-> Testimonial(i)],
     newslettersubscriber |-> <<>>]

(************************ the document accessor ****************************)
\* a document matches a query when it holds every queried field with that value
Matches(d, qry) == \A k \in DOMAIN qry : k \in DOMAIN d /\ d[k] = qry[k]

\* db[c].find_one(qry) is truthy
find_one(c, qry) == \E i \in 1..Len(coll[c]) : Matches(coll[c][i], qry)

\* db[c].count_documents({})
count_documents(c) == Len(coll[c])

\* create_document(c, fields): the store after the insert; the store assigns _id
create_document(c, fields) ==
    [coll EXCEPT ![c] = Append(@, fields @@ ("_id" :> Len(@) + 1))]

\* get_documents(c, qry, limit): matching documents in insertion order, at most limit
get_documents(c, qry, limit) ==
    LET found == SelectSeq(coll[c], LAMBDA d : Matches(d, qry))
    IN  IF limit = NoLimit THEN found ELSE PySlice(found, limit[1])

(***************************** state ***************************************)
Idle == [pc |-> "idle", email |-> "", i |-> 0, calls |-> 0, inserted |-> 0, products |-> 0]
NoResp == [kind |-> "none"]

AllIdle == \A p \in Procs : proc[p].pc = "idle"
\* a request is handed to the first worker that has none
Free(p) == proc[p].pc = "idle" /\ \A q \in 1..(p - 1) : proc[q].pc # "idle"
Started == Len(history) + Cardinality({p \in Procs : proc[p].pc # "idle"})

Init ==
    /\ dbAvailable \in BOOLEAN
    /\ coll \in IF dbAvailable
                THEN {Store(np, nt) : np \in {0, MaxPreProducts}, nt \in {0, MaxPreTestimonials}}
                ELSE {Store(0, 0)}
    /\ proc = [p \in Procs |-> Idle]
    /\ resp = NoResp
    /\ history = <<>>
    /\ initial = [c \in DOMAIN coll |-> Len(coll[c])]

\* worker p sends the response of its write request and becomes free;
\* l holds the handler's locals at that point
Reply(p, kind, code, status, l) ==
    LET r == [kind |-> kind, email |-> l.email, code |-> code, status |-> status,
              products |-> l.products]
    IN  /\ resp' = r @@ [calls |-> l.calls, inserted |-> l.inserted]
        /\ history' = Append(history, r)
        /\ proc' = [proc EXCEPT ![p] = Idle]

\* worker p goes on to its next store call with locals l
Goto(p, l) ==
    /\ proc' = [proc EXCEPT ![p] = l]
    /\ resp' = NoResp
    /\ UNCHANGED history

(************************ POST /api/newsletter/subscribe *******************)
\* mutant: the handler without its existence check
subscribe_newsletter_NoCheck(p, e) ==
    /\ resp = NoResp
    /\ Free(p)
    /\ Started < MaxReq
    /\ UNCHANGED <<dbAvailable, coll, initial>>
    /\ IF ~dbAvailable
       THEN Reply(p, "subscribe", 503, "", [Idle EXCEPT !.email = e])
       ELSE Goto(p, [Idle EXCEPT !.email = e, !.pc = "sub_create"])

\* mutant: the handler without its db check
subscribe_newsletter_NoDbCheck(p, e) ==
    /\ resp = NoResp
    /\ Free(p)
    /\ Started < MaxReq
    /\ UNCHANGED <<dbAvailable, coll, initial>>
    /\ \E raises \in BOOLEAN :
         LET l == [Idle EXCEPT !.email = e, !.calls = 1]
         IN  IF raises
             THEN Reply(p, "subscribe", 500, "", l)
             ELSE IF find_one("newslettersubscriber", [email |-> e])
                  THEN Reply(p, "subscribe", 200, "exists", l)
                  ELSE Goto(p, [l EXCEPT !.pc = "sub_create"])

\* the db check and the existence check: db[...].find_one({"email": payload.email})
subscribe_newsletter(p, e) ==
    /\ resp = NoResp
    /\ Free(p)
    /\ Started < MaxReq
    /\ UNCHANGED <<dbAvailable, coll, initial>>
    /\ IF ~dbAvailable
       THEN Reply(p, "subscribe", 503, "", [Idle EXCEPT !.email = e])
       ELSE \E raises \in BOOLEAN :
              LET l == [Idle EXCEPT !.email = e, !.calls = 1]
              IN  IF raises
                  THEN Reply(p, "subscribe", 500, "", l)
                  ELSE IF find_one("newslettersubscriber", [email |-> e])
                       THEN Reply(p, "subscribe", 200, "exists", l)
                       ELSE Goto(p, [l EXCEPT !.pc = "sub_create"])

\* mutant: the handler answers "ok" without the create_document call
subscribe_newsletter_create_Dropped(p) ==
    /\ resp = NoResp
    /\ proc[p].pc = "sub_create"
    /\ UNCHANGED <<dbAvailable, coll, initial>>
    /\ Reply(p, "subscribe", 200, "ok", proc[p])

\* create_document("newslettersubscriber", {"email": payload.email}) and the return
subscribe_newsletter_create(p) ==
    /\ resp = NoResp
    /\ proc[p].pc = "sub_create"
    /\ UNCHANGED <<dbAvailable, initial>>
    /\ \E raises \in BOOLEAN :
         LET l == [proc[p] EXCEPT !.calls = @ + 1]
         IN  IF raises
             THEN /\ UNCHANGED coll
                  /\ Reply(p, "subscribe", 500, "", l)
             ELSE /\ coll' = create_document("newslettersubscriber", [email |-> l.email])
                  /\ Reply(p, "subscribe", 200, "ok", [l EXCEPT !.inserted = @ + 1])

(***************************** POST /api/seed ******************************)
\* mutant: the product step without its count guard
seed_NoCount(p) ==
    /\ resp = NoResp
    /\ Free(p)
    /\ Started < MaxReq
    /\ UNCHANGED <<dbAvailable, coll, initial>>
    /\ IF ~dbAvailable
       THEN Reply(p, "seed", 503, "", Idle)
       ELSE Goto(p, [Idle EXCEPT !.pc = "seed_product", !.i = 1])

\* mutant: the product step runs whenever fewer products than items are stored
seed_Repairing(p) ==
    /\ resp = NoResp
    /\ Free(p)
    /\ Started < MaxReq
    /\ UNCHANGED <<dbAvailable, coll, initial>>
    /\ IF ~dbAvailable
       THEN Reply(p, "seed", 503, "", Idle)
       ELSE \E raises \in BOOLEAN :
              LET l == [Idle EXCEPT !.calls = 1]
              IN  IF raises
                  THEN Reply(p, "seed", 500, "", l)
                  ELSE IF count_documents("product") < Len(items)
                       THEN Goto(p, [l EXCEPT !.pc = "seed_product", !.i = 1])
                       ELSE Goto(p, [l EXCEPT !.pc = "seed_count_testimonial"])

\* the db check and db["product"].count_documents({}) == 0
seed(p) ==
    /\ resp = NoResp
    /\ Free(p)
    /\ Started < MaxReq
    /\ UNCHANGED <<dbAvailable, coll, initial>>
    /\ IF ~dbAvailable
       THEN Reply(p, "seed", 503, "", Idle)
       ELSE \E raises \in BOOLEAN :
              LET l == [Idle EXCEPT !.calls = 1]
              IN  IF raises
                  THEN Reply(p, "seed", 500, "", l)
                  ELSE IF count_documents("product") = 0
                       THEN Goto(p, [l EXCEPT !.pc = "seed_product", !.i = 1])
                       ELSE Goto(p, [l EXCEPT !.pc = "seed_count_testimonial"])

\* one turn of: for it in items: create_document("product", it)
seed_product(p) ==
    /\ resp = NoResp
    /\ proc[p].pc = "seed_product"
    /\ UNCHANGED <<dbAvailable, initial>>
    /\ \E raises \in BOOLEAN :
         LET l == [proc[p] EXCEPT !.calls = @ + 1]
         IN  IF raises
             THEN /\ UNCHANGED coll
                  /\ Reply(p, "seed", 500, "", l)
             ELSE /\ coll' = create_document("product", items[l.i])
                  /\ LET m == [l EXCEPT !.inserted = @ + 1, !.products = @ + 1]
                     IN  IF l.i < Len(items)
                         THEN Goto(p, [m EXCEPT !.i = @ + 1])
                         ELSE Goto(p, [m EXCEPT !.pc = "seed_count_testimonial", !.i = 0])

\* db["testimonial"].count_documents({}) == 0
seed_count_testimonial(p) ==
    /\ resp = NoResp
    /\ proc[p].pc = "seed_count_testimonial"
    /\ UNCHANGED <<dbAvailable, coll, initial>>
    /\ \E raises \in BOOLEAN :
         LET l == [proc[p] EXCEPT !.calls = @ + 1]
         IN  IF raises
             THEN Reply(p, "seed", 500, "", l)
             ELSE IF count_documents("testimonial") = 0
                  THEN Goto(p, [l EXCEPT !.pc = "seed_testimonial", !.i = 1])
                  ELSE Reply(p, "seed", 200, "ok", l)

\* one turn of: for t in [...]: create_document("testimonial", t); then the return
seed_testimonial(p) ==
    /\ resp = NoResp
    /\ proc[p].pc = "seed_testimonial"
    /\ UNCHANGED <<dbAvailable, initial>>
    /\ \E raises \in BOOLEAN :
         LET l == [proc[p] EXCEPT !.calls = @ + 1]
         IN  IF raises
             THEN /\ UNCHANGED coll
                  /\ Reply(p, "seed", 500, "", l)
             ELSE /\ coll' = create_document("testimonial", seed_testimonials[l.i])
                  /\ LET m == [l EXCEPT !.inserted = @ + 1]
                     IN  IF l.i < Len(seed_testimonials)
                         THEN Goto(p, [m EXCEPT !.i = @ + 1])
                         ELSE Reply(p, "seed", 200, "ok", m)

(************************ POST /api/products/bestsellers *******************)
\* a request body: each argument is <<>> (field absent) or <<value>>
Body(t, c, l) ==
    [k \in (IF t # <<>> THEN {"tag"} ELSE {}) \cup
           (IF c # <<>> THEN {"category"} ELSE {}) \cup
           (IF l # <<>> THEN {"limit"} ELSE {})
       |-> CASE k = "tag" -> t[1] [] k = "category" -> c[1] [] OTHER -> l[1]]

TagInputs == {<<>>, <<"bestseller">>}
CategoryInputs == {<<>>, <<"paniers">>}
LimitInputs == {<<>>, <<NoLimit>>, << <<0>> >>, << <<1>> >>, << <<50>> >>, << <<51>> >>}
Bodies == {Body(t, c, l) : t \in TagInputs, c \in CategoryInputs, l \in LimitInputs}

\* ProductFilter: the fields after pydantic has applied the defaults
ProductFilter(body) ==
    [tag |-> Get(body, "tag", None),
     category |-> Get(body, "category", None),
     limit |-> Get(body, "limit", <<8>>)]

\* ProductFilter.limit: Optional[int], ge=1, le=50 (None passes the bounds)
ProductFilter_valid(f) == f.limit = NoLimit \/ (f.limit[1] >= 1 /\ f.limit[1] <= 50)

\* mutant: the sample is cut at 8 whatever the limit
LimitOr8_Ignored(f) == 8

\* filter.limit or 8
LimitOr8(f) == IF f.limit = NoLimit \/ f.limit[1] = 0 THEN 8 ELSE f.limit[1]

\* qry = {}; if filter.tag: ...; if filter.category: ...
Query(f) ==
    [k \in (IF Truthy(f.tag) THEN {"tag"} ELSE {}) \cup
           (IF Truthy(f.category) THEN {"category"} ELSE {})
       |-> IF k = "tag" THEN f.tag ELSE f.category]

\* mutant: d["image"] = <placeholder>, whether or not d has an image
MapImages_Overwrite(docs) ==
    [i \in 1..Len(docs) |-> [k \in DOMAIN docs[i] \cup {"image"} |->
                                IF k = "image" THEN PLACEHOLDER_IMAGE ELSE docs[i][k]]]

\* for d in docs: d.setdefault("image", <placeholder>)
MapImages(docs) == [i \in 1..Len(docs) |-> setdefault(docs[i], "image", PLACEHOLDER_IMAGE)]

get_bestsellers(body) ==
    LET f == ProductFilter(body)
        r == [kind |-> "bestsellers", request |-> body, calls |-> 0, body |-> <<>>]
    IN  /\ resp = NoResp
        /\ UNCHANGED <<dbAvailable, coll, proc, history, initial>>
        /\ IF ~ProductFilter_valid(f)
           THEN resp' = r @@ [code |-> 422]
           ELSE IF ~dbAvailable
                THEN resp' = [r EXCEPT !.body = PySlice(sample, LimitOr8(f))] @@ [code |-> 200]
                ELSE \E raises \in BOOLEAN :
                       IF raises
                       THEN resp' = [kind |-> "bestsellers", code |-> 500]
                       ELSE resp' = [r EXCEPT !.calls = 1,
                                              !.body = MapImages(get_documents("product", Query(f), f.limit))]
                                    @@ [code |-> 200]

(***************************** GET /api/testimonials ***********************)
\* {"name": d.get("name"), "message": d.get("message"), "rating": d.get("rating", 5)}
Project(d) ==
    [name |-> Get(d, "name", None), message |-> Get(d, "message", None), rating |-> Get(d, "rating", 5)]

\* mutant: the store is read without the limit of 12
get_testimonials_NoLimit ==
    LET r == [kind |-> "testimonials", calls |-> 0, body |-> <<>>]
    IN  /\ resp = NoResp
        /\ UNCHANGED <<dbAvailable, coll, proc, history, initial>>
        /\ IF ~dbAvailable
           THEN resp' = [r EXCEPT !.body = sample_testimonials] @@ [code |-> 200]
           ELSE \E raises \in BOOLEAN :
                  IF raises
                  THEN resp' = [kind |-> "testimonials", code |-> 500]
                  ELSE LET docs == get_documents("testimonial", <<>>, NoLimit)
                       IN  resp' = [r EXCEPT !.calls = 1,
                                             !.body = [i \in 1..Len(docs) |-> Project(docs[i])]]
                                   @@ [code |-> 200]

get_testimonials ==
    LET r == [kind |-> "testimonials", calls |-> 0, body |-> <<>>]
    IN  /\ resp = NoResp
        /\ UNCHANGED <<dbAvailable, coll, proc, history, initial>>
        /\ IF ~dbAvailable
           THEN resp' = [r EXCEPT !.body = sample_testimonials] @@ [code |-> 200]
           ELSE \E raises \in BOOLEAN :
                  IF raises
                  THEN resp' = [kind |-> "testimonials", code |-> 500]
                  ELSE LET docs == get_documents("testimonial", <<>>, <<12>>)
                       IN  resp' = [r EXCEPT !.calls = 1,
                                             !.body = [i \in 1..Len(docs) |-> Project(docs[i])]]
                                   @@ [code |-> 200]

(***************************** the framework *******************************)
\* the response of the handler that just returned (or raised) goes to the client
Deliver ==
    /\ resp # NoResp
    /\ resp' = NoResp
    /\ UNCHANGED <<dbAvailable, coll, proc, history, initial>>

(***************************** specifications ******************************)
\* a request arrives
Arrive ==
    \/ \E p \in Procs, e \in Emails : subscribe_newsletter(p, e)
    \/ \E p \in Procs : seed(p)
    \/ \E body \in Bodies : get_bestsellers(body)
    \/ get_testimonials

\* a write handler in flight makes its next store call
Continue ==
    \/ \E p \in Procs : subscribe_newsletter_create(p)
    \/ \E p \in Procs : seed_product(p)
    \/ \E p \in Procs : seed_count_testimonial(p)
    \/ \E p \in Procs : seed_testimonial(p)

Next == Arrive \/ Continue \/ Deliver

SeqNext == (AllIdle /\ Arrive) \/ Continue \/ Deliver

Spec == Init /\ [][Next]_vars

SeqSpec == Init /\ [][SeqNext]_vars

(***************************************************************************)
(*                              the claims                                 *)
(***************************************************************************)
\* stored newsletter documents with email e
Count(e) ==
    Cardinality({i \in 1..Len(coll.newslettersubscriber) :
                    coll.newslettersubscriber[i].email = e})

\* the subscribe calls for e that the store served (no store call raised)
Served(e) ==
    {i \in 1..Len(history) :
        history[i].kind = "subscribe" /\ history[i].email = e /\ history[i].code = 200}

\* the subscribe calls for e answered "ok"
OkFor(e) ==
    {i \in 1..Len(history) :
        history[i].kind = "subscribe" /\ history[i].email = e /\ history[i].status = "ok"}

\* the seed calls answered so far, as indices of history
SeedsWith(code) ==
    {i \in 1..Len(history) : history[i].kind = "seed" /\ history[i].code = code}

\* the limit a bestsellers request body asks for: 8 when the field is absent
RequestedLimit(body) == IF "limit" \in DOMAIN body THEN body.limit ELSE <<8>>

\* the stored product with identifier id: the store numbers the documents of
\* a collection in insertion order (the claims below check the _id they read)
StoredProduct(c, id) == c.product[id]

\* C1: when requests do not overlap, the newsletter collection holds exactly
\* one document for each email a served subscribe call was made for and none
\* for any other; the first served call for an email answers "ok" and every
\* later served call for it answers "exists" (and so writes nothing).
C1_NewsletterUniqueness ==
    \A e \in Emails :
        /\ Count(e) = IF Served(e) = {} THEN 0 ELSE 1
        /\ \A i \in Served(e) :
             history[i].status = IF \A j \in Served(e) : i <= j THEN "ok" ELSE "exists"

C1_Witness ==
    /\ Len(history) = 2
    /\ history[1].kind = "subscribe" /\ history[1].status = "ok"
    /\ history[2].kind = "subscribe" /\ history[2].status = "exists"
    /\ history[1].email = history[2].email
    /\ Count(history[1].email) = 1

\* C2: when requests do not overlap, once a seed call has answered "ok" no
\* later step changes the product or the testimonial collection, and a later
\* seed call that answers "ok" has inserted nothing.
C2_SeedIdempotent ==
    [][SeedsWith(200) # {} =>
          /\ coll'.product = coll.product
          /\ coll'.testimonial = coll.testimonial
          /\ (resp'.kind = "seed" /\ resp'.code = 200 => resp'.inserted = 0)]_vars

C2_Witness ==
    /\ \A c \in DOMAIN initial : initial[c] = 0
    /\ Len(history) = 2
    /\ SeedsWith(200) = {1, 2}
    /\ Len(coll.product) = 3
    /\ Len(coll.testimonial) = 2

\* C3: with no store (db is None) subscribe and seed answer 503 at once: no
\* handler gets past its db check, no store call is made, nothing is written,
\* and no answer is "ok" or "exists".
C3_WritesRefused ==
    ~dbAvailable =>
        /\ coll = Store(0, 0)
        /\ AllIdle
        /\ \A i \in 1..Len(history) : history[i].code = 503 /\ history[i].status = ""
        /\ resp.kind \in {"subscribe", "seed"} =>
              resp.code = 503 /\ resp.status = "" /\ resp.calls = 0 /\ resp.inserted = 0

C3_Witness ==
    /\ ~dbAvailable
    /\ Len(history) = 2
    /\ history[1].kind = "subscribe"
    /\ history[2].kind = "seed"
    /\ resp.kind = "seed"

\* the titles of the degraded-mode bestsellers, in order
SampleTitles ==
    <<"Panier Chocolat Signature", "Coffret Méditerranéen Prestige", "Assortiment Découverte">>

\* C4: with no store, a bestsellers request is refused only for a limit
\* outside 1..50; every other request is answered 200 without a store call,
\* with the first min(L, 3) sample documents in order (all 3 when the limit
\* is absent or null), each with the fields _id, title, price, image, tag.
C4_DegradedBestsellers ==
    (resp.kind = "bestsellers" /\ ~dbAvailable) =>
        LET l == RequestedLimit(resp.request)
        IN  IF l # NoLimit /\ (l[1] < 1 \/ l[1] > 50)
            THEN resp.code = 422
            ELSE /\ resp.code = 200
                 /\ resp.calls = 0
                 /\ Len(resp.body) = IF l = NoLimit THEN 3 ELSE Min(l[1], 3)
                 /\ \A i \in 1..Len(resp.body) :
                      /\ resp.body[i].title = SampleTitles[i]
                      /\ DOMAIN resp.body[i] = {"_id", "title", "price", "image", "tag"}

C4_Witness ==
    /\ ~dbAvailable
    /\ resp.kind = "bestsellers"
    /\ resp.code = 200
    /\ "tag" \in DOMAIN resp.request
    /\ RequestedLimit(resp.request) = <<1>>
    /\ Len(resp.body) = 1

\* C5 (as claimed): a bestsellers request is refused exactly when its limit
\* is outside 1..50, before any store call; every answered request has a
\* limit in 1..50 (8 when absent) and returns at most that many documents, so
\* never more than 50.
C5_Original ==
    (resp.kind = "bestsellers" /\ resp.code \in {200, 422}) =>
        LET l == RequestedLimit(resp.request)
        IN  IF resp.code = 422
            THEN l # NoLimit /\ (l[1] < 1 \/ l[1] > 50) /\ resp.calls = 0
            ELSE Len(resp.body) <= IF l = NoLimit THEN 50 ELSE l[1]

\* the field names every degraded-mode bestsellers document has
DegradedFields == {k \in DOMAIN sample[1] : \A i \in 1..Len(sample) : k \in DOMAIN sample[i]}

\* C6 (as claimed): every document the live bestsellers path returns has
\* every field name of the degraded-mode documents.
C6_Original ==
    (resp.kind = "bestsellers" /\ dbAvailable /\ resp.code = 200) =>
        \A i \in 1..Len(resp.body) : DegradedFields \subseteq DOMAIN resp.body[i]

\* C7: when requests do not overlap, the live testimonials endpoint returns
\* the first 12 stored testimonials (all of them when fewer), each as
\* {name, message, rating} with rating 5 when the document has none; and when
\* the testimonial collection was empty at start and the first seed call
\* answered "ok", it returns exactly Sofia (5) then Karim (5).
C7_SeedThenRead ==
    (resp.kind = "testimonials" /\ dbAvailable /\ resp.code = 200) =>
        /\ Len(resp.body) = Min(12, Len(coll.testimonial))
        /\ \A i \in 1..Len(resp.body) :
             LET d == coll.testimonial[i]
                 r == resp.body[i]
             IN  /\ DOMAIN r = {"name", "message", "rating"}
                 /\ r.name = IF "name" \in DOMAIN d THEN d.name ELSE None
                 /\ r.message = IF "message" \in DOMAIN d THEN d.message ELSE None
                 /\ r.rating = IF "rating" \in DOMAIN d THEN d.rating ELSE 5
        /\ (/\ initial.testimonial = 0
            /\ SeedsWith(200) \cup SeedsWith(500) # {}
            /\ \A i \in SeedsWith(500) : \E j \in SeedsWith(200) : j < i)
           => /\ Len(resp.body) = 2
              /\ resp.body[1].name = "Sofia" /\ resp.body[1].rating = 5
              /\ resp.body[2].name = "Karim" /\ resp.body[2].rating = 5

C7_Witness ==
    /\ \A c \in DOMAIN initial : initial[c] = 0
    /\ Len(history) = 1
    /\ SeedsWith(200) = {1}
    /\ resp.kind = "testimonials"
    /\ resp.code = 200
    /\ Len(resp.body) = 2

\* C8: a bestsellers request changes no collection; on the live path every
\* returned document is its stored document unchanged when that one has an
\* image field (whatever its value), and otherwise the stored document plus
\* image = the placeholder URL, the stored one still lacking the field.
C8_ImageDefaultOnRead ==
    [][resp'.kind = "bestsellers" =>
          /\ coll' = coll
          /\ (dbAvailable /\ resp'.code = 200) =>
                \A i \in 1..Len(resp'.body) :
                    LET r == resp'.body[i]
                        d == StoredProduct(coll', r._id)
                    IN  /\ d._id = r._id
                        /\ IF "image" \in DOMAIN d
                           THEN r = d
                           ELSE r = [k \in DOMAIN d \cup {"image"} |->
                                       IF k = "image" THEN PLACEHOLDER_IMAGE ELSE d[k]]]_vars

C8_Witness ==
    /\ dbAvailable
    /\ resp.kind = "bestsellers"
    /\ resp.code = 200
    /\ \E i, j \in 1..Len(resp.body) :
          /\ resp.body[i].image = PLACEHOLDER_IMAGE
          /\ StoredProduct(coll, resp.body[i]._id)._id = resp.body[i]._id
          /\ "image" \notin DOMAIN StoredProduct(coll, resp.body[i]._id)
          /\ resp.body[j].image = "photo-miel"

\* C9: every subscribe call answered "ok" has stored one document for its
\* email, so the number of documents stored for an email is the number of
\* "ok" answers for it; with overlapping requests that number reaches 2.
C9_EveryOkIsStored == \A e \in Emails : Count(e) = Cardinality(OkFor(e))

C9_Witness ==
    \E e \in Emails :
        /\ Len(history) = 2
        /\ OkFor(e) = {1, 2}
        /\ Count(e) = 2

\* C10: when requests do not overlap, after a seed call has failed (500)
\* having inserted k >= 1 products into an empty product collection, the
\* collection holds exactly those k products, the first k of the sample
\* products, in every later state: nothing is rolled back and no later seed
\* call inserts the missing ones.
C10_SeedNotRepaired ==
    \A i \in SeedsWith(500) :
        history[i].products >= 1 =>
            /\ history[i].status = ""
            /\ Len(coll.product) = history[i].products
            /\ \A j \in 1..Len(coll.product) :
                 /\ coll.product[j]._id = j
                 /\ \A k \in DOMAIN items[j] : coll.product[j][k] = items[j][k]

C10_Witness ==
    /\ Len(history) = 2
    /\ 1 \in SeedsWith(500)
    /\ history[1].products = 1
    /\ 2 \in SeedsWith(200)
    /\ Len(coll.product) = 1
    /\ Len(coll.testimonial) = 2

====
